---- MODULE Spec2Model ----
(***************************************************************************)
(* Model of enex2notion/cli_upload.py: the DoneFile ledger, the           *)
(* EnexUploader batch coordinator (upload_notebook), the per-note worker  *)
(* thread (upload_note_with_release / upload_note) and the retry loop     *)
(* _upload_note.                                                          *)
(*                                                                        *)
(* A token (note_hash) and a line of the done file are sequences of       *)
(* one-character strings, so that line.strip() is modelled by what it     *)
(* does.  The collaborators parse_note and upload_note (enex_uploader)    *)
(* are external: each call returns or raises, chosen nondeterministically.*)
(***************************************************************************)
EXTENDS Integers, Sequences, FiniteSets

\* ------------------------------------------------------------------ bounds
\* Largest number of notes iter_notes yields for one notebook.
MaxNotes == 2
\* Largest value of the parallelism option.
MaxParallelism == 2
\* Number of upload_notebook runs (process runs or notebooks) in a behaviour.
MaxRuns == 2

\* range(5) in _upload_note.
RETRIES == 5
\* "if attempt == 4" in _upload_note.
LAST_ATTEMPT == 4

None == "None"

\* ------------------------------------------------------------ input domains
Whitespace == {" ", "\n"}
TagT == "T"
HashA == <<"a">>
HashB == <<"b">>
Tokens == {HashA, HashB}
\* The notes a notebook may hold: one without the forced tag, one that has it once.
NotePool ==
    { [note_hash |-> HashA, tags |-> <<"x">>],
      [note_hash |-> HashB, tags |-> <<TagT, "x">>] }
SeqsUpTo(S, n) == UNION { [1..k -> S] : k \in 0..n }
NoFile == [exists |-> FALSE, lines |-> <<>>]
\* Done files found at start-up: none, or one written by earlier runs (with a
\* duplicate line and surrounding whitespace).
InitFiles == { NoFile, [exists |-> TRUE, lines |-> << <<" ", "a", "\n">>, <<"a", "\n">> >>] }

VARIABLES
    notes,                \* iter_notes(enex_file): the notebook's notes, in source order
    parallelism,          \* EnexUploader.parallelism
    rules_tag,            \* EnexUploader.rules.tag
    import_root,          \* EnexUploader.import_root
    path_file,            \* the content of the file at DoneFile.path
    done_hashes,          \* DoneFile.done_hashes
    lock,                 \* DoneFile.lock: 0 when free, else the thread holding it
    semaphore,            \* EnexUploader.semaphore: its counter
    cpc,                  \* position of the thread running upload_notebook
    note_idx,             \* upload_notebook: note_idx of the last thread started
    drain_i,              \* upload_notebook: acquisitions made by the drain loop
    notebook_root,        \* upload_notebook: notebook_root
    notebook_notes_count, \* EnexUploader.notebook_notes_count: <<>> for None, else <<count>>
    pc,                   \* per worker thread: its position
    wnote,                \* per worker thread: its deep copy of the note
    widx,                 \* per worker thread: its note_idx argument
    attempt,              \* per worker thread: _upload_note's loop variable
    outcome,              \* per worker thread: how upload_note ended
    calls,                \* per worker thread: what its pipeline has done so far
    uncaught,             \* threads whose target let an exception escape
    upload_ok,            \* per token: successful upload_note calls so far
    raced,                \* tokens for which two workers were past the dedup check at once
    seed,                 \* done_hashes as first loaded from the file
    run                   \* number of the current upload_notebook run

vars == << notes, parallelism, rules_tag, import_root, path_file, done_hashes, lock,
           semaphore, cpc, note_idx, drain_i, notebook_root, notebook_notes_count,
           pc, wnote, widx, attempt, outcome, calls, uncaught, upload_ok, raced, seed, run >>

config == << notes, parallelism, rules_tag, import_root, seed >>
ledger == << path_file, done_hashes, lock >>
coord == << cpc, note_idx, drain_i, notebook_root, notebook_notes_count >>
workers == << pc, wnote, widx, attempt, outcome, calls, uncaught >>
ghosts == << upload_ok, raced >>

Threads == 1..MaxNotes
Range(s) == { s[i] : i \in 1..Len(s) }

\* ------------------------------------------------------------------ DoneFile
RECURSIVE LStrip(_)
LStrip(s) == IF s # <<>> /\ Head(s) \in Whitespace THEN LStrip(Tail(s)) ELSE s

RECURSIVE RStrip(_)
RStrip(s) ==
    IF s # <<>> /\ s[Len(s)] \in Whitespace THEN RStrip(SubSeq(s, 1, Len(s) - 1)) ELSE s

StripNone(s) == s
\* str.strip()
Strip(s) == RStrip(LStrip(s))

\* DoneFile.__init__: the set of stripped lines, or the empty set without a file.
LoadDoneFile(f) ==
    IF f.exists THEN { Strip(f.lines[i]) : i \in 1..Len(f.lines) } ELSE {}

LockIgnored(holder) == TRUE
\* threading.Lock.acquire() returns only when no thread holds the lock
LockFree(holder) == holder = 0

\* DoneFile.__contains__ (under the lock)
Contains(hashes, note_hash) == note_hash \in hashes

SetAddDropped(hashes, note_hash) == hashes
SetAddReplace(hashes, note_hash) == {note_hash}
\* DoneFile.add, first statement: self.done_hashes.add(note_hash)
SetAdd(hashes, note_hash) == hashes \cup {note_hash}

FileAppendDropped(f, note_hash) == f
\* DoneFile.add, second statement: open(path, "a").write(note_hash + "\n")
FileAppend(f, note_hash) ==
    [exists |-> TRUE, lines |-> Append(f.lines, note_hash \o <<"\n">>)]

\* ----------------------------------------------------------------- semaphore
AcquirableAlways(value) == TRUE
\* threading.Semaphore.acquire() returns only when the counter is positive
Acquirable(value) == value > 0

\* threading.BoundedSemaphore.release(n): ValueError beyond the initial value
SemRelease(value, n, initial) == IF value + n > initial THEN value ELSE value + n

DrainCountShort(p) == p - 1
DrainCountLong(p) == p + 1
\* upload_notebook: for i in range(self.parallelism)
DrainCount(p) == p

EnumerateFromZero(started) == started
\* upload_notebook: enumerate(iter_notes(enex_file), 1)
EnumerateIdx(started) == started + 1

\* --------------------------------------------------------------- upload_note
ApplyRuleAlways(tags, tag) == IF tag # None THEN Append(tags, tag) ELSE tags
\* upload_note: if self.rules.tag and self.rules.tag not in note.tags: append
ApplyRule(tags, tag) ==
    IF tag # None /\ tag \notin Range(tags) THEN Append(tags, tag) ELSE tags

ParseNoteErrorAsBlocks(result) == IF result = "error" THEN "blocks" ELSE result
\* _parse_note: parse_note's blocks, or [] when it raises
ParseNote(result) == IF result = "error" THEN "empty" ELSE result

GetNotebookRootAlways(root) == "root"
\* _get_notebook_root: None without an import root, else the page or database
GetNotebookRoot(root) == IF root = None THEN None ELSE "root"

UploadStepNoBreak(att, result) ==
    CASE result = "ok" -> "continue"
      [] result = "fail" -> IF att = LAST_ATTEMPT THEN "raise" ELSE "continue"
      [] OTHER -> "raise_other"
UploadStepNoRaise(att, result) ==
    CASE result = "ok" -> "break"
      [] result = "fail" -> "continue"
      [] OTHER -> "raise_other"
UploadStepRetryAll(att, result) ==
    CASE result = "ok" -> "break"
      [] OTHER -> IF att = LAST_ATTEMPT THEN "raise" ELSE "continue"
\* _upload_note lines 123-132: what the loop body does with upload_note's result
UploadStep(att, result) ==
    CASE result = "ok" -> "break"
      [] result = "fail" -> IF att = LAST_ATTEMPT THEN "raise" ELSE "continue"
      [] OTHER -> "raise_other"

\* _upload_note line 122: for attempt in range(5), after a continue
LoopNext(att) == IF att + 1 < RETRIES THEN "again" ELSE "exhausted"

AfterDedupFallThrough(found) == "continue"
\* upload_note lines 80-82: return when the hash is in the done set
AfterDedup(found) == IF found THEN "return" ELSE "continue"

\* upload_note_with_release: try/finally has no except clause, so whatever
\* upload_note raises leaves the thread's target
Escapes(how) == how \in {"failed_upload", "failed_other"}

ReleaseCountNoFinally(how) == IF Escapes(how) THEN 0 ELSE 1
\* upload_note_with_release: the finally clause releases one slot however
\* upload_note ended
ReleaseCount(how) == 1

\* upload_notebook has no return statement
UploadNotebookResult == None

\* dedup: result of the dedup check; parse: parse_note calls; perr: parse_note
\* raised; upload: upload_note calls since _upload_note was entered or left;
\* failed: of these, raised NoteUploadFailException; other: upload_note calls
\* that raised anything else; ok: upload_note calls that returned; add:
\* DoneFile.add calls.
NoCalls == [dedup |-> "none", parse |-> 0, perr |-> FALSE, upload |-> 0, failed |-> 0,
            other |-> 0, ok |-> 0, add |-> 0]
NoNote == [note_hash |-> <<>>, tags |-> <<>>]

\* --------------------------------------------------------------------- Init
\* The state after EnexUploader.__init__ (which constructs the DoneFile).
Init ==
    /\ notes \in SeqsUpTo(NotePool, MaxNotes)
    /\ parallelism \in 1..MaxParallelism
    /\ rules_tag \in {None, TagT}
    /\ import_root \in {None, "root"}
    /\ path_file \in InitFiles
    /\ done_hashes = LoadDoneFile(path_file)
    /\ seed = LoadDoneFile(path_file)
    /\ lock = 0
    /\ semaphore = parallelism
    /\ cpc = "ready"
    /\ note_idx = 0
    /\ drain_i = 0
    /\ notebook_root = None
    /\ notebook_notes_count = <<>>
    /\ pc = [w \in Threads |-> "idle"]
    /\ wnote = [w \in Threads |-> NoNote]
    /\ widx = [w \in Threads |-> 0]
    /\ attempt = [w \in Threads |-> 0]
    /\ outcome = [w \in Threads |-> "none"]
    /\ calls = [w \in Threads |-> NoCalls]
    /\ uncaught = {}
    /\ upload_ok = [t \in Tokens |-> 0]
    /\ raced = {}
    /\ run = 1

\* ---------------------------------------------------------- upload_notebook
\* Lines 59-62: count the notes and resolve the notebook root.
UploadNotebookBegin ==
    /\ cpc = "ready"
    /\ notebook_notes_count' = << Len(notes) >>
    /\ notebook_root' = GetNotebookRoot(import_root)
    /\ note_idx' = 0
    /\ drain_i' = 0
    /\ cpc' = IF Len(notes) > 0 THEN "submit" ELSE "drain"
    /\ pc' = [w \in Threads |-> "idle"]
    /\ outcome' = [w \in Threads |-> "none"]
    /\ calls' = [w \in Threads |-> NoCalls]
    /\ uncaught' = {}
    /\ UNCHANGED << config, ledger, semaphore, wnote, widx, attempt, ghosts, run >>

\* Lines 63-66: acquire a slot and start the thread of the next note.
Submit ==
    /\ cpc = "submit"
    /\ note_idx < Len(notes)
    /\ Acquirable(semaphore)
    /\ LET w == note_idx + 1 IN
        /\ semaphore' = semaphore - 1
        /\ note_idx' = w
        /\ pc' = [pc EXCEPT ![w] = "check"]
        /\ wnote' = [wnote EXCEPT ![w] = notes[w]]
        /\ widx' = [widx EXCEPT ![w] = EnumerateIdx(note_idx)]
        /\ cpc' = IF w < Len(notes) THEN "submit" ELSE "drain"
    /\ UNCHANGED << config, ledger, drain_i, notebook_root, notebook_notes_count,
                    attempt, outcome, calls, uncaught, ghosts, run >>

\* Lines 69-70: one acquisition of the drain loop.
DrainAcquire ==
    /\ cpc = "drain"
    /\ drain_i < DrainCount(parallelism)
    /\ Acquirable(semaphore)
    /\ semaphore' = semaphore - 1
    /\ drain_i' = drain_i + 1
    /\ UNCHANGED << config, ledger, cpc, note_idx, notebook_root, notebook_notes_count,
                    workers, ghosts, run >>

\* Line 71: give all the slots back and return.
DrainRelease ==
    /\ cpc = "drain"
    /\ drain_i >= DrainCount(parallelism)
    /\ semaphore' = SemRelease(semaphore, parallelism, parallelism)
    /\ cpc' = "returned"
    /\ UNCHANGED << config, ledger, note_idx, drain_i, notebook_root, notebook_notes_count,
                    workers, ghosts, run >>

\* ------------------------------------------------------------- worker thread
\* How upload_note ends: the thread goes on to the finally clause.
Finish(w, how) ==
    /\ pc' = [pc EXCEPT ![w] = "finally"]
    /\ outcome' = [outcome EXCEPT ![w] = how]

\* Lines 80-85: the dedup check and, on a miss, the tag rule.
DedupCheck(w) ==
    /\ pc[w] = "check"
    /\ LockFree(lock)
    /\ LET found == Contains(done_hashes, wnote[w].note_hash) IN
        /\ calls' = [calls EXCEPT ![w].dedup = IF found THEN "hit" ELSE "miss"]
        /\ IF AfterDedup(found) = "return"
           THEN /\ Finish(w, "already_done")
                /\ UNCHANGED << wnote, raced >>
           ELSE /\ pc' = [pc EXCEPT ![w] = "parse"]
                /\ wnote' = [wnote EXCEPT ![w].tags = ApplyRule(@, rules_tag)]
                /\ raced' = IF \E v \in Threads \ {w} :
                                  /\ pc[v] \in {"parse", "upload", "add"}
                                  /\ wnote[v].note_hash = wnote[w].note_hash
                            THEN raced \cup {wnote[w].note_hash}
                            ELSE raced
                /\ UNCHANGED outcome
    /\ UNCHANGED << config, ledger, semaphore, coord, widx, attempt, uncaught, upload_ok, run >>

\* Lines 89-94: translate the note; skip it without blocks or without a root.
Parse(w) ==
    /\ pc[w] = "parse"
    /\ \E result \in {"blocks", "empty", "error"} :
        /\ calls' = [calls EXCEPT ![w].parse = @ + 1, ![w].perr = (result = "error")]
        /\ IF ParseNote(result) = "empty"
           THEN /\ Finish(w, IF result = "error" THEN "translate_error" ELSE "empty")
                /\ UNCHANGED attempt
           ELSE IF notebook_root = None
           THEN /\ Finish(w, "dry_run")
                /\ UNCHANGED attempt
           ELSE /\ pc' = [pc EXCEPT ![w] = "upload"]
                /\ attempt' = [attempt EXCEPT ![w] = 0]
                /\ UNCHANGED outcome
    /\ UNCHANGED << config, ledger, semaphore, coord, wnote, widx, uncaught, ghosts, run >>

\* Lines 122-132: one pass of the retry loop.
UploadAttempt(w) ==
    /\ pc[w] = "upload"
    /\ \E result \in {"ok", "fail", "other"} :
        LET step == UploadStep(attempt[w], result) IN
        /\ calls' = [calls EXCEPT ![w].upload = @ + 1,
                                  ![w].failed = IF result = "fail" THEN @ + 1 ELSE @,
                                  ![w].other = IF result = "other" THEN @ + 1 ELSE @,
                                  ![w].ok = IF result = "ok" THEN @ + 1 ELSE @]
        /\ upload_ok' = IF result = "ok"
                        THEN [upload_ok EXCEPT ![wnote[w].note_hash] = @ + 1]
                        ELSE upload_ok
        /\ CASE step = "break" ->
                  /\ pc' = [pc EXCEPT ![w] = "add"]
                  /\ UNCHANGED << attempt, outcome >>
             [] step = "continue" /\ LoopNext(attempt[w]) = "again" ->
                  /\ attempt' = [attempt EXCEPT ![w] = @ + 1]
                  /\ UNCHANGED << pc, outcome >>
             [] step = "continue" /\ LoopNext(attempt[w]) = "exhausted" ->
                  /\ pc' = [pc EXCEPT ![w] = "add"]
                  /\ UNCHANGED << attempt, outcome >>
             [] step = "raise" ->
                  /\ Finish(w, "failed_upload")
                  /\ UNCHANGED attempt
             [] OTHER ->
                  /\ Finish(w, "failed_other")
                  /\ UNCHANGED attempt
    /\ UNCHANGED << config, ledger, semaphore, coord, wnote, widx, uncaught, raced, run >>

\* Lines 36-38: DoneFile.add takes the lock and inserts into the set.
\* _upload_note has returned: its loop variable is gone, and the counts of its
\* calls start again from 0.
AddAcquire(w) ==
    /\ pc[w] = "add"
    /\ LockFree(lock)
    /\ lock' = w
    /\ done_hashes' = SetAdd(done_hashes, wnote[w].note_hash)
    /\ calls' = [calls EXCEPT ![w].add = @ + 1, ![w].upload = 0, ![w].failed = 0]
    /\ attempt' = [attempt EXCEPT ![w] = 0]
    /\ pc' = [pc EXCEPT ![w] = "add_write"]
    /\ UNCHANGED << config, path_file, semaphore, coord, wnote, widx, outcome,
                    uncaught, ghosts, run >>

\* Lines 39-42: DoneFile.add appends the line and releases the lock.
AddWrite(w) ==
    /\ pc[w] = "add_write"
    /\ lock = w
    /\ path_file' = FileAppend(path_file, wnote[w].note_hash)
    /\ lock' = 0
    /\ Finish(w, "done")
    /\ UNCHANGED << config, done_hashes, semaphore, coord, wnote, widx, attempt, calls,
                    uncaught, ghosts, run >>

\* Lines 76-77: the finally clause releases the slot; the thread ends, and with
\* it the thread's locals (only the count of successful uploads is kept).
Release(w) ==
    /\ pc[w] = "finally"
    /\ semaphore' = SemRelease(semaphore, ReleaseCount(outcome[w]), parallelism)
    /\ pc' = [pc EXCEPT ![w] = "exited"]
    /\ wnote' = [wnote EXCEPT ![w] = NoNote]
    /\ widx' = [widx EXCEPT ![w] = 0]
    /\ attempt' = [attempt EXCEPT ![w] = 0]
    /\ calls' = [calls EXCEPT ![w] = [NoCalls EXCEPT !.ok = calls[w].ok]]
    /\ uncaught' = IF Escapes(outcome[w]) THEN uncaught \cup {w} ELSE uncaught
    /\ UNCHANGED << config, ledger, coord, outcome, ghosts, run >>

\* ------------------------------------------------------------------- runs
\* The caller processes the next notebook with the same EnexUploader.
NextNotebook ==
    /\ cpc = "returned"
    /\ run < MaxRuns
    /\ run' = run + 1
    /\ cpc' = "ready"
    /\ UNCHANGED << config, ledger, semaphore, note_idx, drain_i, notebook_root,
                    notebook_notes_count, workers, ghosts >>

\* The process ends (or was killed) and a new one is started on the same done file:
\* EnexUploader.__init__ builds a new DoneFile and a new semaphore.
NewProcess ==
    /\ cpc \in {"returned", "killed"}
    /\ run < MaxRuns
    /\ run' = run + 1
    /\ cpc' = "ready"
    /\ done_hashes' = LoadDoneFile(path_file)
    /\ lock' = 0
    /\ semaphore' = parallelism
    /\ notebook_notes_count' = <<>>
    /\ UNCHANGED << config, path_file, note_idx, drain_i, notebook_root, workers, ghosts >>

Worker(w) ==
    \/ DedupCheck(w)
    \/ Parse(w)
    \/ UploadAttempt(w)
    \/ AddAcquire(w)
    \/ AddWrite(w)
    \/ Release(w)

Next ==
    \/ UploadNotebookBegin
    \/ Submit
    \/ DrainAcquire
    \/ DrainRelease
    \/ NextNotebook
    \/ NewProcess
    \/ \E w \in Threads : Worker(w)

Spec == Init /\ [][Next]_vars

\* The process is killed in the middle of a batch: its threads and its memory
\* are gone, the done file stays as it is.  (The line written by DoneFile.add
\* is one short write: it is in the file whole or not at all.)  One kill per
\* behaviour: it strikes the last run but one, and the restart is the last run.
Kill ==
    /\ cpc \in {"submit", "drain"}
    /\ run = MaxRuns - 1
    /\ cpc' = "killed"
    /\ done_hashes' = {}
    /\ lock' = 0
    /\ pc' = [w \in Threads |-> "idle"]
    /\ wnote' = [w \in Threads |-> NoNote]
    /\ widx' = [w \in Threads |-> 0]
    /\ attempt' = [w \in Threads |-> 0]
    /\ outcome' = [w \in Threads |-> "none"]
    /\ calls' = [w \in Threads |-> NoCalls]
    /\ uncaught' = {}
    /\ UNCHANGED << config, path_file, semaphore, note_idx, drain_i, notebook_root,
                    notebook_notes_count, ghosts, run >>

NextCrash ==
    \/ Next
    \/ Kill

\* Crash resume does not depend on the tag rule, and a run without import
\* root uploads nothing: both are fixed here.
InitCrash ==
    /\ Init
    /\ rules_tag = None
    /\ import_root = "root"

SpecCrash == InitCrash /\ [][NextCrash]_vars

\* One batch under fair scheduling: the thread running upload_notebook and
\* every started worker thread keep being scheduled, and every call of a
\* collaborator returns or raises.
NextBatch ==
    \/ UploadNotebookBegin
    \/ Submit
    \/ DrainAcquire
    \/ DrainRelease
    \/ \E w \in Threads : Worker(w)

\* The variables that tell where each thread is: every step of a thread
\* changes one of them.
position == << cpc, note_idx, drain_i, pc, attempt >>

Fairness ==
    /\ WF_position(UploadNotebookBegin)
    /\ WF_position(Submit)
    /\ WF_position(DrainAcquire)
    /\ WF_position(DrainRelease)
    /\ \A w \in Threads : WF_position(Worker(w))

FairSpec == Init /\ [][NextBatch]_vars /\ Fairness

\* ------------------------------------------------------------ definitions
\* used by the properties below
Active == { w \in Threads : pc[w] \notin {"idle", "exited"} }
Terminal == {"already_done", "empty", "translate_error", "dry_run", "done",
             "failed_upload", "failed_other"}
Batch == 1..Len(notes)
TokensOf(ns) == { ns[i].note_hash : i \in 1..Len(ns) }
Count(x, s) == Cardinality({ i \in 1..Len(s) : s[i] = x })
IsOther(x) == x # TagT
Uploaded == { t \in Tokens : upload_ok[t] > 0 }

\* C1 Bounded concurrency: in every reachable state the number of worker
\* threads that have been started and have not yet released their slot is at
\* most the parallelism P.
C1_BoundedConcurrency == Cardinality(Active) <= parallelism

\* The pool is full while the submit loop still has a note to start.
C1_Witness ==
    /\ cpc = "submit"
    /\ note_idx < Len(notes)
    /\ Cardinality(Active) = parallelism

\* C2 Full drain: when upload_notebook has returned, a worker was started for
\* every note of the batch and each has ended in a terminal state and left.
C2_FullDrain ==
    cpc = "returned" =>
        \A i \in Batch : pc[i] = "exited" /\ outcome[i] \in Terminal

\* A batch larger than the pool has returned, one note done, one failed.
C2_Witness ==
    /\ cpc = "returned"
    /\ Len(notes) > parallelism
    /\ \E i, j \in Batch : outcome[i] = "done" /\ outcome[j] = "failed_upload"

\* C3 (as stated) At most once per token: upload_note succeeds at most once
\* for any token, over all runs and interleavings.
C3_AtMostOncePerToken == \A t \in Tokens : upload_ok[t] <= 1

\* C3 (amended) upload_note succeeds more than once for a token only when two
\* workers holding that token were both past the dedup check before either had
\* added it.
C3_AtMostOnceUnlessRaced == \A t \in Tokens : upload_ok[t] <= 1 \/ t \in raced

\* Two notes with one token, processed one after the other over all the runs,
\* were uploaded once.
C3_Witness ==
    /\ cpc = "returned"
    /\ run = MaxRuns
    /\ \E i, j \in Batch : i # j /\ notes[i].note_hash = notes[j].note_hash
                                 /\ upload_ok[notes[i].note_hash] = 1
                                 /\ notes[i].note_hash \notin raced

\* C4 Dedup short-circuit: a pipeline whose dedup check found the token in the
\* ledger calls neither parse_note nor upload_note nor DoneFile.add and leaves
\* its note's tags as they were.
C4_DedupShortCircuit ==
    \A w \in Threads :
        calls[w].dedup = "hit" =>
            /\ calls[w].parse = 0
            /\ calls[w].upload = 0
            /\ calls[w].add = 0
            /\ wnote[w].tags = notes[w].tags
            /\ pc[w] = "finally"
            /\ outcome[w] = "already_done"

\* A note whose token was loaded from the done file was skipped, with the tag
\* rule configured and the tag not on the note.
C4_Witness ==
    \E w \in Threads :
        /\ calls[w].dedup = "hit"
        /\ pc[w] = "finally"
        /\ rules_tag = TagT
        /\ TagT \notin Range(notes[w].tags)

\* C5 (as stated) After two consecutive runs over the same notes and done
\* file, the ledger's token set equals the set of tokens of the notes; stated
\* here for the runs that start without a done file and upload to a real root.
C5_LedgerEqualsNotes ==
    (run >= 2 /\ cpc = "returned" /\ seed = {} /\ import_root # None) =>
        done_hashes = TokensOf(notes)

\* C5 (amended) After two consecutive runs, the ledger's token set (in memory
\* and reloaded from the file) is what the first run loaded plus the tokens
\* whose upload succeeded; it is the token set of the notes when the ledger
\* started empty and every note's token was uploaded.
C5_LedgerEqualsSeedAndUploaded ==
    (run >= 2 /\ cpc = "returned") =>
        /\ done_hashes = seed \cup Uploaded
        /\ LoadDoneFile(path_file) = done_hashes
        /\ (seed = {} /\ TokensOf(notes) \subseteq Uploaded) => done_hashes = TokensOf(notes)

\* Two different notes, no done file at the start: after the second run the
\* ledger holds exactly their two tokens.
C5_Witness ==
    /\ run >= 2
    /\ cpc = "returned"
    /\ seed = {}
    /\ Cardinality(TokensOf(notes)) = 2
    /\ done_hashes = TokensOf(notes)
    /\ LoadDoneFile(path_file) = TokensOf(notes)

\* C6 Retry bound, eventual success: a pipeline whose upload_note call has
\* succeeded after k NoteUploadFailException failures has k < 5 and has made
\* exactly k+1 calls when _upload_note returns; it makes no call after that
\* and calls DoneFile.add exactly once, which puts its token in the ledger.
C6_RetryThenSuccess ==
    \A w \in Threads :
        calls[w].ok >= 1 =>
            /\ calls[w].ok = 1
            /\ pc[w] \in {"add", "add_write", "finally", "exited"}
            /\ (pc[w] = "add" =>
                   /\ calls[w].failed < RETRIES
                   /\ calls[w].upload = calls[w].failed + 1
                   /\ calls[w].add = 0)
            /\ (pc[w] # "add" => calls[w].upload = 0)
            /\ (pc[w] \in {"add_write", "finally"} => calls[w].add = 1)
            /\ (pc[w] \in {"finally", "exited"} =>
                   /\ outcome[w] = "done"
                   /\ notes[w].note_hash \in done_hashes
                   /\ notes[w].note_hash \in LoadDoneFile(path_file))

\* Four failures, then success on the fifth attempt.
C6_Witness ==
    \E w \in Threads :
        /\ pc[w] = "add"
        /\ calls[w].failed = RETRIES - 1
        /\ calls[w].upload = RETRIES
        /\ calls[w].ok = 1

\* C7 Retry exhaustion: a pipeline whose upload_note call has failed five times
\* with NoteUploadFailException has made exactly five calls, never a sixth, has
\* not called DoneFile.add, and ends as failed; its token is in the ledger only
\* when something else put it there (the file at start-up, or the upload of
\* another note with the same token).
C7_RetryExhaustion ==
    \A w \in Threads :
        calls[w].failed >= RETRIES =>
            /\ calls[w].failed = RETRIES
            /\ calls[w].upload = RETRIES
            /\ calls[w].ok = 0
            /\ calls[w].add = 0
            /\ pc[w] = "finally"
            /\ outcome[w] = "failed_upload"
            /\ (upload_ok[wnote[w].note_hash] = 0 =>
                   /\ wnote[w].note_hash \notin done_hashes
                   /\ wnote[w].note_hash \notin LoadDoneFile(path_file))

\* In a second run a note's upload has failed five times and its token is in
\* neither the set nor the file, so that a later run finds it missing again.
C7_Witness ==
    \E w \in Threads :
        /\ run >= 2
        /\ pc[w] = "finally"
        /\ calls[w].failed = RETRIES
        /\ wnote[w].note_hash \notin done_hashes
        /\ wnote[w].note_hash \notin LoadDoneFile(path_file)

\* C8 (as stated) Fatal upload failure goes through a result channel: a worker
\* whose upload failed on all five attempts lets no exception escape its
\* thread, and upload_notebook's result tells the failure.
C8_FatalUploadReported ==
    \A w \in Threads :
        (pc[w] = "exited" /\ outcome[w] = "failed_upload") =>
            /\ w \notin uncaught
            /\ (cpc = "returned" => UploadNotebookResult # None)

\* C9 Fault isolation on translation errors: a pipeline whose parse_note call
\* raised ends as skipped without any upload_note or DoneFile.add call, and
\* when upload_notebook has returned from a batch holding such a note, every
\* worker whose upload succeeded ended as done with its token in the ledger.
C9_FaultIsolation ==
    /\ \A w \in Threads :
           calls[w].perr =>
               /\ pc[w] = "finally"
               /\ outcome[w] = "translate_error"
               /\ calls[w].upload = 0
               /\ calls[w].add = 0
    /\ (cpc = "returned" /\ \E w \in Batch : outcome[w] = "translate_error") =>
           \A v \in Batch :
               calls[v].ok >= 1 =>
                   /\ outcome[v] = "done"
                   /\ notes[v].note_hash \in done_hashes
                   /\ notes[v].note_hash \in LoadDoneFile(path_file)

\* A batch has returned with one note skipped on a translation error and a
\* sibling done.
C9_Witness ==
    /\ cpc = "returned"
    /\ \E w, v \in Batch :
           /\ outcome[w] = "translate_error"
           /\ calls[v].ok = 1
           /\ outcome[v] = "done"

\* C10 Tag injection is idempotent: with a forced tag T configured, once a
\* pipeline is past the rule step its tags hold T exactly once when the note
\* had T at most once, are the note's own tags when it had T once, and keep
\* the note's tags, in order, as a prefix.
C10_TagInjection ==
    \A w \in Threads :
        (calls[w].dedup = "miss" /\ rules_tag # None /\ Count(TagT, notes[w].tags) <= 1) =>
            /\ Count(rules_tag, wnote[w].tags) = 1
            /\ (Count(rules_tag, notes[w].tags) = 1 => wnote[w].tags = notes[w].tags)
            /\ SubSeq(wnote[w].tags, 1, Len(notes[w].tags)) = notes[w].tags
            /\ SelectSeq(wnote[w].tags, IsOther) = SelectSeq(notes[w].tags, IsOther)

\* Two workers past the rule step: one whose note had no T, one whose note had it.
C10_Witness ==
    \E w, v \in Threads :
        /\ calls[w].dedup = "miss"
        /\ calls[v].dedup = "miss"
        /\ rules_tag = TagT
        /\ Count(TagT, notes[w].tags) = 0
        /\ Count(TagT, notes[v].tags) = 1

\* C11 Ledger write-through: whenever the ledger lock is not held, every token
\* of the in-memory set is a line of the done file, and a dedup check never
\* finds a token that is not yet in the file.
C11_WriteThrough ==
    /\ lock = 0 => done_hashes \subseteq LoadDoneFile(path_file)
    /\ \A w \in Threads :
           calls[w].dedup = "hit" => wnote[w].note_hash \in LoadDoneFile(path_file)

\* With the lock free, a token added in this run is in the set and in the
\* file, and a later note with the same token has found it.
C11_Witness ==
    /\ lock = 0
    /\ \E w \in Threads :
           /\ calls[w].dedup = "hit"
           /\ wnote[w].note_hash \in done_hashes \ seed

\* C12 (as stated) Crash resume: when the process has been killed in a batch,
\* the done file holds exactly the tokens it held at the start and the tokens
\* of the notes whose upload had succeeded.
C12_FileHoldsEveryUpload ==
    cpc = "killed" => LoadDoneFile(path_file) = seed \cup Uploaded

\* C12 (amended) The done file holds only tokens it held at the start or whose
\* upload succeeded, and it holds the token of every pipeline that has ended
\* as done, so that a kill loses at most the uploads whose DoneFile.add had
\* not yet written; the process started after a kill loads exactly the file,
\* and a pipeline that finds its token there makes no upload call.
C12_FileHoldsEveryDone ==
    /\ LoadDoneFile(path_file) \subseteq seed \cup Uploaded
    /\ \A w \in Threads :
           outcome[w] = "done" => notes[w].note_hash \in LoadDoneFile(path_file)
    /\ cpc = "ready" => done_hashes = LoadDoneFile(path_file)
    /\ \A w \in Threads : calls[w].dedup = "hit" => calls[w].upload = 0

\* Killed while one note was done and written, the other still uploading or
\* about to add: the file holds the token of the first.
C12_Witness ==
    /\ cpc = "killed"
    /\ \E t \in Tokens : t \in LoadDoneFile(path_file) \ seed
    /\ \E t \in Tokens : t \in Uploaded /\ t \notin LoadDoneFile(path_file)

\* C13 Unconditional slot release: the semaphore's counter is always P less
\* the workers that hold a slot and the slots the drain loop holds, whatever
\* way the workers ended, so each worker releases its slot exactly once; and
\* when upload_notebook has returned, and when the next batch starts, all P
\* slots are free.
C13_SlotRelease ==
    /\ semaphore = parallelism - Cardinality(Active)
                               - (IF cpc = "drain" THEN drain_i ELSE 0)
    /\ cpc \in {"returned", "ready"} => semaphore = parallelism

\* upload_notebook has returned from a batch in which every worker let an
\* exception escape, one of each kind, and all the slots are free.
C13_Witness ==
    /\ cpc = "returned"
    /\ semaphore = parallelism
    /\ Len(notes) >= 2
    /\ uncaught = Batch
    /\ \E i, j \in Batch : outcome[i] = "failed_upload" /\ outcome[j] = "failed_other"

\* C14 Deadlock freedom and termination: under fair scheduling, the start of
\* upload_notebook leads to the state in which upload_notebook has returned
\* and the worker of every note of the batch has been started, has ended in a
\* terminal state and has left.
C14_Termination ==
    (cpc = "ready") ~>
        (/\ cpc = "returned"
         /\ \A i \in Batch : pc[i] = "exited" /\ outcome[i] \in Terminal)

\* upload_notebook has returned from a batch smaller than the pool, in which
\* a worker raised.
C14_Witness ==
    /\ cpc = "returned"
    /\ 0 < Len(notes)
    /\ Len(notes) < parallelism
    /\ \E i \in Batch : outcome[i] = "failed_other"

\* C15 Dry run has no effect: without an import root no pipeline makes an
\* upload call or calls DoneFile.add, and the in-memory set and the done file
\* stay as they were when the process started.
C15_DryRunNoEffect ==
    import_root = None =>
        /\ done_hashes = seed
        /\ path_file \in InitFiles
        /\ LoadDoneFile(path_file) = seed
        /\ \A t \in Tokens : upload_ok[t] = 0
        /\ \A w \in Threads :
               /\ calls[w].upload = 0
               /\ calls[w].ok = 0
               /\ calls[w].add = 0
               /\ pc[w] \notin {"upload", "add", "add_write"}

\* A dry run has returned; a note with blocks was translated and not
\* uploaded, and its token is still missing from the ledger.
C15_Witness ==
    /\ import_root = None
    /\ cpc = "returned"
    /\ \E i \in Batch :
           /\ outcome[i] = "dry_run"
           /\ notes[i].note_hash \notin done_hashes
           /\ notes[i].note_hash \notin LoadDoneFile(path_file)

\* C16 Only the upload-specific error is retried: a pipeline whose upload_note
\* call raised anything but NoteUploadFailException has made no call after
\* that one (exactly one call when the first one raised this way), has not
\* called DoneFile.add and ends as failed; its token is in the ledger only
\* when the upload of another note put it there; and when upload_notebook has
\* returned from a batch with such a worker, all the slots are free.
C16_OtherErrorNotRetried ==
    /\ \A w \in Threads :
           calls[w].other >= 1 =>
               /\ calls[w].other = 1
               /\ calls[w].upload = calls[w].failed + 1
               /\ calls[w].failed < RETRIES
               /\ calls[w].ok = 0
               /\ calls[w].add = 0
               /\ pc[w] = "finally"
               /\ outcome[w] = "failed_other"
               /\ (upload_ok[wnote[w].note_hash] = 0 =>
                      /\ wnote[w].note_hash \notin done_hashes
                      /\ wnote[w].note_hash \notin LoadDoneFile(path_file))
    /\ \A w \in Threads :
           (pc[w] = "exited" /\ outcome[w] = "failed_other" /\ cpc = "returned") =>
               semaphore = parallelism

\* The first upload_note call of a pipeline raised another error; the
\* pipeline is in its finally clause with one call made, its token not in
\* the ledger.
C16_Witness ==
    \E w \in Threads :
        /\ calls[w].other = 1
        /\ calls[w].upload = 1
        /\ pc[w] = "finally"
        /\ wnote[w].note_hash \notin done_hashes

\* C17 Dispatch order equals source order: the workers started so far are
\* those of the first note_idx notes of the source sequence, so the worker of
\* note i is started before the worker of note i+1, and a running worker
\* holds the i-th note and the 1-based index i, whatever workers have ended.
C17_DispatchOrder ==
    /\ \A i, j \in Threads : (i < j /\ pc[j] # "idle") => pc[i] # "idle"
    /\ cpc \in {"submit", "drain"} =>
           \A w \in Threads : (pc[w] # "idle") <=> (w <= note_idx)
    /\ \A w \in Active :
           /\ w \in Batch
           /\ widx[w] = w
           /\ widx[w] >= 1
           /\ wnote[w].note_hash = notes[w].note_hash

\* The worker of the second note has ended while the worker of the first
\* note, of another token, is still running.
C17_Witness ==
    /\ Len(notes) >= 2
    /\ pc[1] \in {"parse", "upload", "add", "add_write", "finally"}
    /\ pc[2] = "exited"
    /\ widx[1] = 1
    /\ notes[1].note_hash # notes[2].note_hash

\* C18 Ledger monotonicity: no step of the pipeline, under any interleaving
\* of the workers' dedup checks and adds, takes a token out of the in-memory
\* set or out of the set of tokens of the done file.
C18_LedgerMonotonic ==
    [][ /\ done_hashes \subseteq done_hashes'
        /\ LoadDoneFile(path_file) \subseteq LoadDoneFile(path_file') ]_vars

\* A ledger loaded with one token has grown by another, in the set and in
\* the file, while a worker is still running.
C18_Witness ==
    /\ seed # {}
    /\ seed \subseteq done_hashes
    /\ done_hashes \ seed # {}
    /\ LoadDoneFile(path_file) \ seed # {}
    /\ Active # {}

\* C19 Ledger soundness: every token of the in-memory set and of the done file
\* was in the file when the first process loaded it or belongs to a note
\* whose upload_note call has returned since; and a pipeline that ends as
\* already done, empty, translation error, dry run or failed upload has not
\* called DoneFile.add.
C19_LedgerSound ==
    /\ done_hashes \subseteq seed \cup Uploaded
    /\ LoadDoneFile(path_file) \subseteq seed \cup Uploaded
    /\ \A w \in Threads :
           (pc[w] = "finally" /\ outcome[w] # "done") =>
               /\ calls[w].add = 0
               /\ (calls[w].dedup = "miss" /\ upload_ok[wnote[w].note_hash] = 0) =>
                      wnote[w].note_hash \notin done_hashes

\* A batch has returned: the token of the note that was uploaded is in the
\* ledger, the token of the note without blocks is not.
C19_Witness ==
    /\ cpc = "returned"
    /\ \E i, j \in Batch :
           /\ outcome[i] = "done"
           /\ notes[i].note_hash \in done_hashes \ seed
           /\ outcome[j] = "empty"
           /\ notes[j].note_hash \notin done_hashes

\* C20 Ledger reload round trip: whenever no add is in progress, a DoneFile
\* constructed from the done file holds exactly the in-memory set of the
\* running one, whatever the order of the adds and the duplicate lines; and
\* without a file it is empty.
C20_ReloadRoundTrip ==
    /\ lock = 0 => LoadDoneFile(path_file) = done_hashes
    /\ (lock = 0 /\ ~path_file.exists) => done_hashes = {}
    /\ LoadDoneFile(NoFile) = {}

\* Two workers raced on one token: the file, absent at the start, holds the
\* same line twice and reloads to the one token of the set.
C20_Witness ==
    /\ lock = 0
    /\ seed = {}
    /\ Cardinality(done_hashes) = 1
    /\ \E i, j \in 1..Len(path_file.lines) : i # j /\ path_file.lines[i] = path_file.lines[j]

====
